---- MODULE Spec2Model ----
(***************************************************************************)
(* The memory bus of rust_boy (src/src/bus.rs): the 64 KiB array owned by  *)
(* the bus, the address dispatch of Bus::read and Bus::write, the echo RAM *)
(* mirror, the interrupt register view, the LCD registers and the DMA      *)
(* trigger.  The cartridge, the PPU, the timer and the joypad are the      *)
(* bus's collaborators; their memories are kept as separate stores.        *)
(***************************************************************************)
EXTENDS Integers, Sequences, FiniteSets, TLC

(***************************************************************************)
(* Address map, bus.rs lines 21-34, and the register addresses bus.rs      *)
(* imports from the ppu, timer and joypad modules (lines 10-19).           *)
(***************************************************************************)
BANK_ZERO == <<\h0000, \h3FFF>>
BANK_SWITCHABLE == <<\h4000, \h7FFF>>
VIDEO_RAM == <<\h8000, \h9FFF>>
EXTERNAL_RAM == <<\hA000, \hBFFF>>
WORK_RAM_1 == <<\hC000, \hCFFF>>
WORK_RAM_2 == <<\hD000, \hDFFF>>
ECHO_RAM == <<\hE000, \hFDFF>>
SPRITE_ATTRIBUTE_TABLE == <<\hFE00, \hFE9F>>
NOT_USABLE_FROM_FEA1 == <<\hFEA1, \hFEFF>>
NOT_USABLE == <<\hFEA0, \hFEFF>>
IO_REGISTERS == <<\hFF00, \hFF7F>>
HIGH_RAM == <<\hFF80, \hFFFE>>
INTERRUPT_ENABLE_REGISTER == <<\hFFFF, \hFFFF>>
INTERRUPT_ENABLE_ADDRESS == \hFFFF
INTERRUPT_FLAG_ADDRESS == \hFF0F
LCD_CONTROL_ADDRESS == \hFF40
LCD_STATUS_ADDRESS == \hFF41
LCD_Y_ADDRESS == \hFF44
DMA_ADDRESS == \hFF46
TIMER_DIVIDER_REGISTER_ADDRESS == \hFF04
JOYPAD_ADDRESS == \hFF00

(* RangeInclusive<u16>: a region is the pair <<start, end>>, both included. *)
contains(r, a) == r[1] <= a /\ a <= r[2]

RangeMin(r) == r[1]

(***************************************************************************)
(* u8 and u16 arithmetic.                                                  *)
(***************************************************************************)
(* utils::get_bit(byte, index) *)
get_bit(b, i) == (b \div (2 ^ i)) % 2 = 1

(* The u8 operators & and |, bit by bit. *)
And8(a, b) ==
    LET f[i \in 0 .. 8] ==
            IF i = 8 THEN 0
            ELSE (IF get_bit(a, i) /\ get_bit(b, i) THEN 2 ^ i ELSE 0) + f[i + 1]
    IN  f[0]

Or8(a, b) ==
    LET f[i \in 0 .. 8] ==
            IF i = 8 THEN 0
            ELSE (IF get_bit(a, i) \/ get_bit(b, i) THEN 2 ^ i ELSE 0) + f[i + 1]
    IN  f[0]

(* wrapping_add as the plain sum. *)
unchecked_add(a, n) == a + n

(* u16::wrapping_add(1) *)
wrapping_add(a, n) == (a + n) % 65536

(* utils::join_bytes(high, low) *)
join_bytes(hi, lo) == hi * 256 + lo

(* u16::to_le_bytes(): <<low byte, high byte>> *)
to_le_bytes(w) == <<w % 256, w \div 256>>

(***************************************************************************)
(* A byte array indexed by address.  Every array of the program starts     *)
(* zeroed ([0x00; 0x10000]); the model keeps only the non-zero cells, so   *)
(* Get is the array read and Put the array store (@@ builds the function  *)
(* cell by cell).                                                          *)
(***************************************************************************)
Get(m, a) == IF a \in DOMAIN m THEN m[a] ELSE 0

Put(m, a, v) ==
    IF v = 0
    THEN [x \in DOMAIN m \ {a} |-> m[x]] @@ <<>>
    ELSE (a :> v) @@ m

Zeroed == <<>>

(***************************************************************************)
(* The collaborators the bus forwards to.  Their code is outside bus.rs;   *)
(* each is modelled by the contract the bus relies on.                     *)
(***************************************************************************)
Call(fn, a, d) == [fn |-> fn, addr |-> a, data |-> d]

(* ROM::read(address): the byte the cartridge shows at address. *)
rom_read(s, address) == Get(s.rom, address)

(* ROM::write(address, data): external RAM is stored, a write into the ROM
   range (a banking register) leaves the visible bytes as they are. *)
rom_write(s, address, data) ==
    [s EXCEPT !.rom = IF contains(EXTERNAL_RAM, address) THEN Put(@, address, data) ELSE @,
              !.calls = Append(@, Call("rom_write", address, data))]

(* PPU::read_vram, PPU::write_vram, PPU::read_oam, PPU::write_oam *)
read_vram(s, address) == Get(s.vram, address)

write_vram(s, address, data) ==
    [s EXCEPT !.vram = Put(@, address, data),
              !.calls = Append(@, Call("write_vram", address, data))]

read_oam(s, address) == Get(s.oam, address)

write_oam(s, address, data) ==
    [s EXCEPT !.oam = Put(@, address, data),
              !.calls = Append(@, Call("write_oam", address, data))]

(* Timer::read_divider and Timer::reset *)
read_divider(s) == s.divider

timer_reset(s) ==
    [s EXCEPT !.divider = 0, !.calls = Append(@, Call("timer_reset", 0, 0))]

(* Joypad::read(byte): bits 4 and 5 of the stored byte select the button
   groups (0 selects); a pressed button of a selected group reads 0. *)
joypad_read(s, byte) ==
    LET dir == IF get_bit(byte, 4) THEN 0 ELSE s.joypad.direction
        act == IF get_bit(byte, 5) THEN 0 ELSE s.joypad.action
    IN  Or8(192, Or8(And8(byte, 48), 15 - Or8(dir, act)))

(* Interrupt::set(byte, val): bit `interrupt` of byte set to val. *)
interrupt_set(interrupt, byte, val) ==
    IF val THEN Or8(byte, 2 ^ interrupt) ELSE And8(byte, 255 - 2 ^ interrupt)

(***************************************************************************)
(* Bus::read, bus.rs lines 91-106.                                         *)
(***************************************************************************)
(* ReadInterruptRegister without the mask. *)
ReadInterruptRegisterRaw(s, address) == Get(s.data, address)

(* lines 94-95: the interrupt registers read with bits 5-7 set *)
ReadInterruptRegister(s, address) == Or8(\hE0, Get(s.data, address))

(* read serving every address from the bus array, the interrupt registers
   apart. *)
read_from_store(s, address) ==
    IF address = INTERRUPT_ENABLE_ADDRESS \/ address = INTERRUPT_FLAG_ADDRESS
    THEN ReadInterruptRegister(s, address)
    ELSE Get(s.data, address)

read(s, address) ==
    IF contains(BANK_ZERO, address) \/ contains(BANK_SWITCHABLE, address) \/ contains(EXTERNAL_RAM, address)
    THEN rom_read(s, address)
    ELSE IF address = INTERRUPT_ENABLE_ADDRESS \/ address = INTERRUPT_FLAG_ADDRESS
    THEN ReadInterruptRegister(s, address)
    ELSE IF contains(VIDEO_RAM, address)
    THEN read_vram(s, address)
    ELSE IF contains(SPRITE_ATTRIBUTE_TABLE, address)
    THEN read_oam(s, address)
    ELSE IF address = JOYPAD_ADDRESS
    THEN joypad_read(s, Get(s.data, address))
    ELSE IF address = TIMER_DIVIDER_REGISTER_ADDRESS
    THEN read_divider(s)
    ELSE Get(s.data, address)

(* Bus::read_16bit, bus.rs lines 108-110 *)
read_16bit(s, address) ==
    join_bytes(read(s, wrapping_add(address, 1)), read(s, address))

(***************************************************************************)
(* Bus::write, bus.rs lines 112-166, one operator per branch.              *)
(***************************************************************************)
(* line 123: the echo RAM cell of a work RAM address *)
EchoIndex(address) == RangeMin(ECHO_RAM) + (address - RangeMin(WORK_RAM_1))

(* line 129: the work RAM cell of an echo RAM address *)
WorkIndex(address) == RangeMin(WORK_RAM_1) + (address - RangeMin(ECHO_RAM))

(* line 156: the first source address of a DMA *)
DmaSource(data) == data * \h100

(* WriteWorkRam with the mirrored range cut one byte short. *)
WriteWorkRamShortMirror(s, address, data) ==
    LET s1 == [s EXCEPT !.data = Put(@, address, data)]
    IN  IF address < \hDDFF
        THEN [s1 EXCEPT !.data =
                 Put(@, RangeMin(ECHO_RAM) + (address - RangeMin(WORK_RAM_1)), data)]
        ELSE s1

(* lines 119-124: work RAM, copied to the echo RAM up to 0xDDFF *)
WriteWorkRam(s, address, data) ==
    LET s1 == [s EXCEPT !.data = Put(@, address, data)]
    IN  IF address <= \hDDFF
        THEN [s1 EXCEPT !.data = Put(@, EchoIndex(address), data)]
        ELSE s1

(* WriteEchoRam without the copy to the work RAM. *)
WriteEchoRamNoCopy(s, address, data) == [s EXCEPT !.data = Put(@, address, data)]

(* lines 127-129: echo RAM, copied to the work RAM *)
WriteEchoRam(s, address, data) ==
    LET s1 == [s EXCEPT !.data = Put(@, address, data)]
    IN  [s1 EXCEPT !.data = Put(@, WorkIndex(address), data)]

(* WriteTimerDivider storing the byte instead of resetting the timer. *)
WriteTimerDividerStores(s, address, data) == [s EXCEPT !.data = Put(@, address, data)]

(* lines 130-131: the timer divider, any write resets the timer *)
WriteTimerDivider(s, address, data) == timer_reset(s)

(* WriteLcdControl clearing the low three bits of the status register. *)
WriteLcdControlClearsThree(s, address, data) ==
    LET s1 == [s EXCEPT !.data = Put(@, address, data)]
    IN  IF (get_bit(data, 7) /\ ~get_bit(Get(s1.data, address), 7)) \/ ~get_bit(data, 7)
        THEN LET s2 == [s1 EXCEPT !.data = Put(@, LCD_Y_ADDRESS, \h00)]
                 byte == Get(s2.data, LCD_STATUS_ADDRESS)
             IN  [s2 EXCEPT !.data = Put(@, LCD_STATUS_ADDRESS, And8(byte, \hF8))]
        ELSE s1

(* lines 132-141: LCD control.  The byte is stored first, so the test of
   line 135 reads the bit just written. *)
WriteLcdControl(s, address, data) ==
    LET s1 == [s EXCEPT !.data = Put(@, address, data)]
    IN  IF (get_bit(data, 7) /\ ~get_bit(Get(s1.data, address), 7)) \/ ~get_bit(data, 7)
        THEN LET s2 == [s1 EXCEPT !.data = Put(@, LCD_Y_ADDRESS, \h00)]
                 byte == Get(s2.data, LCD_STATUS_ADDRESS)
             IN  [s2 EXCEPT !.data = Put(@, LCD_STATUS_ADDRESS, And8(byte, \hFC))]
        ELSE s1

(* WriteLcdY storing the byte. *)
WriteLcdYStores(s, address, data) == [s EXCEPT !.data = Put(@, address, data)]

(* lines 142-143: LCD Y, the write is dropped *)
WriteLcdY(s, address, data) == s

(* WriteLcdStatus with the masks of the joypad register. *)
WriteLcdStatusNibbles(s, address, data) ==
    LET byte == Get(s.data, address)
    IN  [s EXCEPT !.data = Put(@, address, Or8(And8(data, \hF0), And8(byte, \h0F)))]

(* WriteLcdStatus storing the whole byte. *)
WriteLcdStatusStores(s, address, data) == [s EXCEPT !.data = Put(@, address, data)]

(* lines 144-146: LCD status *)
WriteLcdStatus(s, address, data) ==
    LET byte == Get(s.data, address)
    IN  [s EXCEPT !.data = Put(@, address, Or8(And8(data, \hF8), And8(byte, \h07)))]

(* WriteJoypad storing the whole byte. *)
WriteJoypadStores(s, address, data) == [s EXCEPT !.data = Put(@, address, data)]

(* lines 147-149: joypad *)
WriteJoypad(s, address, data) ==
    LET byte == Get(s.data, address)
    IN  [s EXCEPT !.data = Put(@, address, Or8(And8(data, \hF0), And8(byte, \h0F)))]

(* lines 154-162: DMA.  Iteration count = 0 .. 159 of the loop calls
   write_oam(oam_addr + count, self.data[source + count]); the bus array does
   not change inside the loop, so the 160 calls and the cells they leave in
   the OAM are written out directly, in the order of the loop. *)
WriteDma(s, address, data) ==
    LET s1 == [s EXCEPT !.data = Put(@, address, data)]
        source == DmaSource(data)
        oam_addr == RangeMin(SPRITE_ATTRIBUTE_TABLE)
        byte(count) == Get(s1.data, source + count)
        written == { oam_addr + count : count \in 0 .. 159 }
        cells == (DOMAIN s1.oam \ written)
                     \cup { oam_addr + count : count \in { c \in 0 .. 159 : byte(c) # 0 } }
    IN  [s1 EXCEPT
            !.oam = [a \in cells |->
                        IF a \in written THEN byte(a - oam_addr) ELSE s1.oam[a]] @@ <<>>,
            !.calls = @ \o [i \in 1 .. 160 |->
                               Call("write_oam", oam_addr + (i - 1), byte(i - 1))]]

(* line 164: the plain store *)
WritePlain(s, address, data) == [s EXCEPT !.data = Put(@, address, data)]

write(s, address, data) ==
    IF contains(BANK_ZERO, address) \/ contains(BANK_SWITCHABLE, address) \/ contains(EXTERNAL_RAM, address)
    THEN rom_write(s, address, data)
    ELSE IF contains(WORK_RAM_1, address) \/ contains(WORK_RAM_2, address)
    THEN WriteWorkRam(s, address, data)
    ELSE IF contains(EXTERNAL_RAM, address)
    THEN s
    ELSE IF contains(ECHO_RAM, address)
    THEN WriteEchoRam(s, address, data)
    ELSE IF address = TIMER_DIVIDER_REGISTER_ADDRESS
    THEN WriteTimerDivider(s, address, data)
    ELSE IF address = LCD_CONTROL_ADDRESS
    THEN WriteLcdControl(s, address, data)
    ELSE IF address = LCD_Y_ADDRESS
    THEN WriteLcdY(s, address, data)
    ELSE IF address = LCD_STATUS_ADDRESS
    THEN WriteLcdStatus(s, address, data)
    ELSE IF address = JOYPAD_ADDRESS
    THEN WriteJoypad(s, address, data)
    ELSE IF contains(VIDEO_RAM, address)
    THEN write_vram(s, address, data)
    ELSE IF contains(SPRITE_ATTRIBUTE_TABLE, address)
    THEN write_oam(s, address, data)
    ELSE IF address = DMA_ADDRESS
    THEN WriteDma(s, address, data)
    ELSE WritePlain(s, address, data)

(* force_write going through the rules of write. *)
force_write_dispatched(s, address, data) == write(s, address, data)

(* Bus::force_write, bus.rs lines 168-170 *)
force_write(s, address, data) == [s EXCEPT !.data = Put(@, address, data)]

(* write_16bit with the bytes taken in big-endian order. *)
write_16bit_big_endian(s, address, data) ==
    LET bytes == to_le_bytes(data)
    IN  write(write(s, address, bytes[2]), wrapping_add(address, 1), bytes[1])

(* write_16bit writing the high byte before the low byte. *)
write_16bit_high_first(s, address, data) ==
    LET bytes == to_le_bytes(data)
    IN  write(write(s, wrapping_add(address, 1), bytes[2]), address, bytes[1])

(* Bus::write_16bit, bus.rs lines 172-176 *)
write_16bit(s, address, data) ==
    LET bytes == to_le_bytes(data)
    IN  write(write(s, address, bytes[1]), wrapping_add(address, 1), bytes[2])

(* set_interrupt_flag reading and writing the interrupt enable register. *)
set_interrupt_flag_on_enable(s, interrupt, val) ==
    LET byte == read(s, INTERRUPT_ENABLE_ADDRESS)
    IN  write(s, INTERRUPT_ENABLE_ADDRESS, interrupt_set(interrupt, byte, val))

(* Bus::set_interrupt_flag, bus.rs lines 178-181 *)
set_interrupt_flag(s, interrupt, val) ==
    LET byte == read(s, INTERRUPT_FLAG_ADDRESS)
    IN  write(s, INTERRUPT_FLAG_ADDRESS, interrupt_set(interrupt, byte, val))

(***************************************************************************)
(* The state: the bus array and the collaborators' memories, the calls the *)
(* last operation made on the collaborators, and the last operation.       *)
(***************************************************************************)
VARIABLES data, rom, vram, oam, divider, joypad, calls, last, ops

vars == <<data, rom, vram, oam, divider, joypad, calls, last, ops>>

(* How many bus operations a run performs. *)
MaxOps == 2

(* The addresses and bytes the operations are called with: the ends of the
   regions, the special registers and their neighbours. *)
Addrs ==
    { \h0400, \h8000, \hA000, \hDDFF, \hDE00, \hE000, \hFDFF, \hFE00,
      \hFF00, \hFF04, \hFF0F, \hFF40, \hFF41, \hFF44, \hFF46, \hFF80, \hFFFF }

Bytes == { \h00, \h04, \hFF }

ForceAddrs ==
    { \h0400, \hDE00, \hFDFF, \hFF00, \hFF04, \hFF0F, \hFF40, \hFF41, \hFF44, \hFF46, \hFFFF }

ForceBytes == { \h04, \hFF }

WordAddrs == { \h7FFF, \hDDFF, \hFDFF, \hFF0E, \hFF40, \hFF43, \hFF45, \hFFFE, \hFFFF }

Words == { \h0000, \h0480, \hFF04 }

Interrupts == 0 .. 4

(* What the bus is constructed with: the cartridge (ROM::load_file), the
   timer's divider and the buttons held on the joypad. *)
Collaborators ==
    { [rom |-> Zeroed, divider |-> \h18,
       joypad |-> [direction |-> 0, action |-> 0]],
      [rom |-> (\h0400 :> \h3E) @@ (\h049F :> \h7F), divider |-> \hAB,
       joypad |-> [direction |-> 1, action |-> 8]] }

(* The seeded registers with another STAT mode. *)
InitialDataStatMode1 ==
    LET seeded == { \hFF00, \hFF02, \hFF04, \hFF07, \hFF0F,
                    \hFF40, \hFF41, \hFF44, \hFF46, \hFF47 }
    IN  [x \in seeded |->
            CASE x = \hFF00 -> \hCF
              [] x = \hFF02 -> \h7E
              [] x = \hFF04 -> \h18
              [] x = \hFF07 -> \hF8
              [] x = \hFF0F -> \hE1
              [] x = \hFF40 -> \h91
              [] x = \hFF41 -> \h85
              [] x = \hFF44 -> \h91
              [] x = \hFF46 -> \hFF
              [] x = \hFF47 -> \hFC]

(* Bus::new, bus.rs lines 58-80: the registers after the boot ROM. *)
InitialData ==
    LET seeded == { \hFF00, \hFF02, \hFF04, \hFF07, \hFF0F,
                    \hFF40, \hFF41, \hFF44, \hFF46, \hFF47 }
    IN  [x \in seeded |->
            CASE x = \hFF00 -> \hCF
              [] x = \hFF02 -> \h7E
              [] x = \hFF04 -> \h18
              [] x = \hFF07 -> \hF8
              [] x = \hFF0F -> \hE1
              [] x = \hFF40 -> \h91
              [] x = \hFF41 -> \h81
              [] x = \hFF44 -> \h91
              [] x = \hFF46 -> \hFF
              [] x = \hFF47 -> \hFC]

Init ==
    /\ data = InitialData
    /\ \E c \in Collaborators :
           /\ rom = c.rom
           /\ divider = c.divider
           /\ joypad = c.joypad
    /\ vram = Zeroed
    /\ oam = Zeroed
    /\ calls = <<>>
    /\ last = [op |-> "new", addr |-> 0, data |-> 0]
    /\ ops = 0

(* The bus and its collaborators as they stand, before a call. *)
St ==
    [data |-> data, rom |-> rom, vram |-> vram, oam |-> oam,
     divider |-> divider, joypad |-> joypad, calls |-> <<>>]

Returns(t, op, a, d) ==
    /\ data' = t.data
    /\ rom' = t.rom
    /\ vram' = t.vram
    /\ oam' = t.oam
    /\ divider' = t.divider
    /\ joypad' = t.joypad
    /\ calls' = t.calls
    /\ last' = [op |-> op, addr |-> a, data |-> d]

Becomes(t, op, a, d) ==
    /\ ops < MaxOps
    /\ ops' = ops + 1
    /\ Returns(t, op, a, d)

Write == \E a \in Addrs, d \in Bytes : Becomes(write(St, a, d), "write", a, d)

Write16 == \E a \in WordAddrs, w \in Words : Becomes(write_16bit(St, a, w), "write_16bit", a, w)

ForceWrite == \E a \in ForceAddrs, d \in ForceBytes : Becomes(force_write(St, a, d), "force_write", a, d)

SetInterruptFlag ==
    \E k \in Interrupts, v \in BOOLEAN :
        Becomes(set_interrupt_flag(St, k, v), "set_interrupt_flag", k, IF v THEN 1 ELSE 0)

Next == Write \/ Write16 \/ ForceWrite \/ SetInterruptFlag

Spec == Init /\ [][Next]_vars

(***************************************************************************)
(* The values of type u16 and the array indices a call computes, branch by *)
(* branch as in Bus::write, Bus::read_16bit and Bus::write_16bit.          *)
(***************************************************************************)
write_values(address, value) ==
    {address}
        \cup (IF (contains(WORK_RAM_1, address) \/ contains(WORK_RAM_2, address))
                  /\ address <= \hDDFF
              THEN {address - RangeMin(WORK_RAM_1), EchoIndex(address)}
              ELSE {})
        \cup (IF contains(ECHO_RAM, address)
              THEN {address - RangeMin(ECHO_RAM), WorkIndex(address)}
              ELSE {})
        \cup (IF address = LCD_CONTROL_ADDRESS
              THEN {LCD_Y_ADDRESS, LCD_STATUS_ADDRESS}
              ELSE {})
        \cup (IF address = DMA_ADDRESS
              THEN {DmaSource(value)}
                       \cup { DmaSource(value) + count : count \in 0 .. 159 }
                       \cup { RangeMin(SPRITE_ATTRIBUTE_TABLE) + count : count \in 0 .. 159 }
                       \cup { count + 1 : count \in 0 .. 159 }
              ELSE {})

read_16bit_values(address) == {wrapping_add(address, 1), address}

write_16bit_values(address, value) ==
    LET bytes == to_le_bytes(value)
    IN  write_values(address, bytes[1])
            \cup {wrapping_add(address, 1)}
            \cup write_values(wrapping_add(address, 1), bytes[2])

(***************************************************************************)
(* The sweep: write_16bit at every address in turn, from 0x0000 to 0xFFFF, *)
(* with every source page at the DMA register.                             *)
(***************************************************************************)
Sweep ==
    LET more == last.op # "new" /\ last.addr = DMA_ADDRESS /\ last.data < \hFF
        a == IF last.op = "new" THEN 0 ELSE IF more THEN last.addr ELSE last.addr + 1
        d == IF more THEN last.data + 1 ELSE 0
    IN  /\ a <= \hFFFF
        /\ ops' = ops
        /\ Returns(write_16bit(St, a, d), "write_16bit", a, d)

SpecSweep == Init /\ [][Sweep]_vars

(***************************************************************************)
(* Properties.                                                             *)
(***************************************************************************)
(* The addresses of work RAM that have a counterpart in echo RAM. *)
Mirrored == \hC000 .. \hDDFF

(* Every mirrored address holds the byte of its echo counterpart.  A cell
   that is absent from m is zero, so only the cells of m need comparing. *)
EchoMirror(m) ==
    \A x \in DOMAIN m :
        /\ x \in Mirrored => Get(m, x + \h2000) = m[x]
        /\ x - \h2000 \in Mirrored => Get(m, x - \h2000) = m[x]

(* C1: after write(A, v) with A in [0xC000,0xDDFF], read(A+0x2000) returns v;
   after write(A+0x2000, v), read(A) returns v. *)
C1_EchoWriteThenRead ==
    last.op = "write" =>
        /\ last.addr \in Mirrored => read(St, last.addr + \h2000) = last.data
        /\ last.addr - \h2000 \in Mirrored => read(St, last.addr - \h2000) = last.data

C1_Witness ==
    /\ last = [op |-> "write", addr |-> \hDDFF, data |-> \hFF]
    /\ read(St, \hFDFF) = \hFF

(* C2, as claimed: in every state reachable by write, write_16bit,
   set_interrupt_flag and force_write calls, every mirrored address holds the
   byte of its echo counterpart. *)
C2_EchoMirrorAlways == EchoMirror(data)

(* C2, amended: the mirror holds after construction, and every call keeps it
   except a force_write to a mirrored address or to its echo counterpart
   (0xC000..0xDDFF and 0xE000..0xFDFF). *)
C2_EchoMirrorKept ==
    /\ EchoMirror(data)
    /\ [][(/\ EchoMirror(data)
           /\ ~(/\ last'.op = "force_write"
                /\ (last'.addr \in Mirrored \/ last'.addr - \h2000 \in Mirrored)))
          => EchoMirror(data')]_vars

C2_Witness ==
    /\ last = [op |-> "write", addr |-> \hE000, data |-> \hFF]
    /\ Get(data, \hC000) = \hFF
    /\ Get(data, \hE000) = \hFF
    /\ Get(data, \hDE00) = \h04
    /\ EchoMirror(data)

(* C3: read(0xFFFF) and read(0xFF0F) return bits 5-7 set and bits 0-4 of the
   stored byte, whatever byte is stored. *)
C3_InterruptMask ==
    \A a \in {INTERRUPT_ENABLE_ADDRESS, INTERRUPT_FLAG_ADDRESS} :
        /\ read(St, a) \div 32 = 7
        /\ read(St, a) % 32 = Get(data, a) % 32

C3_Witness ==
    /\ last = [op |-> "write", addr |-> \hFFFF, data |-> \h04]
    /\ Get(data, \hFFFF) = \h04
    /\ read(St, \hFFFF) = \hE4
    /\ Get(data, \hFF0F) = \h00

(* The byte stored in the bus array at the LCD registers. *)
LY == Get(data, LCD_Y_ADDRESS)

STAT == Get(data, LCD_STATUS_ADDRESS)

LCDC == Get(data, LCD_CONTROL_ADDRESS)

(* The last call was a CPU-facing write that reached the LCD control
   register: write(0xFF40, _), or write_16bit at 0xFF40 (low byte) or at
   0xFF3F (high byte). *)
ReachedLcdControl(l) ==
    \/ l.op = "write" /\ l.addr = LCD_CONTROL_ADDRESS
    \/ l.op = "write_16bit" /\ l.addr \in {LCD_CONTROL_ADDRESS, LCD_CONTROL_ADDRESS - 1}

CpuFacing(l) == l.op \in {"write", "write_16bit"}

(* C4, as claimed: after write(0xFF40, d) with bit 7 of d clear,
   read(0xFF44) = 0 and the low three bits of read(0xFF41) are 0. *)
C4_LcdOffClearsThreeBits ==
    (last.op = "write" /\ last.addr = LCD_CONTROL_ADDRESS /\ ~get_bit(last.data, 7))
        => /\ read(St, LCD_Y_ADDRESS) = 0
           /\ read(St, LCD_STATUS_ADDRESS) % 8 = 0

(* C4, amended: after write(0xFF40, d) with bit 7 of d clear, read(0xFF44) = 0
   and bits 0-1 of read(0xFF41) are 0; bits 2-7 of STAT keep their value. *)
C4_LcdOffClearsModeBits ==
    [][(last'.op = "write" /\ last'.addr = LCD_CONTROL_ADDRESS /\ ~get_bit(last'.data, 7))
        => /\ read(St', LCD_Y_ADDRESS) = 0
           /\ read(St', LCD_STATUS_ADDRESS) % 4 = 0
           /\ read(St', LCD_STATUS_ADDRESS) \div 4 = read(St, LCD_STATUS_ADDRESS) \div 4]_vars

C4_Witness ==
    /\ last = [op |-> "write", addr |-> LCD_CONTROL_ADDRESS, data |-> \h00]
    /\ read(St, LCD_Y_ADDRESS) = 0
    /\ read(St, LCD_STATUS_ADDRESS) = \hFC

(* C5: write(0xFF40, d) resets LY and the STAT mode bits when bit 7 of d is 0,
   and also when bit 7 of d is 1 and the bit 7 stored before was 0; with old
   and new bit 7 both 1, LY and STAT keep their values. *)
C5_LcdControlEdgeRule ==
    [][(last'.op = "write" /\ last'.addr = LCD_CONTROL_ADDRESS)
        => IF get_bit(LCDC, 7) /\ get_bit(last'.data, 7)
           THEN LY' = LY /\ STAT' = STAT
           ELSE LY' = 0 /\ STAT' % 4 = 0]_vars

(* C6: write(0xFF46, d) stores d and makes exactly 160 write_oam calls, to
   0xFE00 .. 0xFE9F in ascending order, the i-th with the byte read(d*0x100+i)
   returned before the write. *)
C6_DmaCopiesReadBytes ==
    [][(last'.op = "write" /\ last'.addr = DMA_ADDRESS)
        => /\ Get(data', DMA_ADDRESS) = last'.data
           /\ Len(calls') = 160
           /\ \A i \in 0 .. 159 :
                 calls'[i + 1] =
                     Call("write_oam", \hFE00 + i, read(St, last'.data * \h100 + i))]_vars

(* C7, as claimed: no write or write_16bit, whatever its address, changes the
   byte stored at 0xFF44; it changes only in a force_write(0xFF44, _) step. *)
C7_LyOnlyForced ==
    [][/\ CpuFacing(last') => LY' = LY
       /\ LY' # LY => (last'.op = "force_write" /\ last'.addr = LCD_Y_ADDRESS)]_vars

(* C7, amended: a write or write_16bit that does not reach 0xFF40 leaves the
   byte stored at 0xFF44 unchanged; the byte changes only in a
   force_write(0xFF44, _) step, or to 0 in a write that reaches 0xFF40 and
   stores a byte with bit 7 clear there. *)
C7_LyForcedOrReset ==
    [][/\ (CpuFacing(last') /\ ~ReachedLcdControl(last')) => LY' = LY
       /\ LY' # LY =>
            \/ last'.op = "force_write" /\ last'.addr = LCD_Y_ADDRESS
            \/ ReachedLcdControl(last') /\ ~get_bit(LCDC', 7) /\ LY' = 0]_vars

C7_Witness ==
    /\ last = [op |-> "write_16bit", addr |-> \hFF43, data |-> \hFF04]
    /\ LY = \h91
    /\ Get(data, \hFF43) = \h04

(* C8: write(0xFF44, x) leaves read(0xFF44) as it was, changes no byte of the
   bus array and calls no collaborator. *)
C8_LyWriteIgnored ==
    [][(last'.op = "write" /\ last'.addr = LCD_Y_ADDRESS)
        => /\ read(St', LCD_Y_ADDRESS) = read(St, LCD_Y_ADDRESS)
           /\ data' = data
           /\ calls' = <<>>
           /\ <<rom', vram', oam', divider', joypad'>> = <<rom, vram, oam, divider, joypad>>]_vars

C8_Witness ==
    /\ last = [op |-> "write", addr |-> LCD_Y_ADDRESS, data |-> \hFF]
    /\ read(St, LCD_Y_ADDRESS) = \h91
    /\ calls = <<>>

(* C9: after write(0xFF41, d) the stored byte, and read(0xFF41), have the high
   five bits of d and the low three bits of the byte stored before. *)
C9_StatPartialWrite ==
    [][(last'.op = "write" /\ last'.addr = LCD_STATUS_ADDRESS)
        => /\ STAT' = (last'.data - (last'.data % 8)) + (STAT % 8)
           /\ read(St', LCD_STATUS_ADDRESS) = STAT'
           /\ last'.data = \hFF => (STAT' % 8 = STAT % 8 /\ STAT' \div 8 = 31)]_vars

C9_Witness ==
    /\ last = [op |-> "write", addr |-> LCD_STATUS_ADDRESS, data |-> \hFF]
    /\ read(St, LCD_STATUS_ADDRESS) = \hF9

(* C10, as claimed: no write or write_16bit changes bits 0-2 of the byte
   stored at 0xFF41; they change only in a force_write(0xFF41, _) step. *)
C10_StatLowBitsOnlyForced ==
    [][/\ CpuFacing(last') => STAT' % 8 = STAT % 8
       /\ STAT' % 8 # STAT % 8 =>
            (last'.op = "force_write" /\ last'.addr = LCD_STATUS_ADDRESS)]_vars

(* C10, amended: a write or write_16bit that does not reach 0xFF40 leaves bits
   0-2 of the byte stored at 0xFF41 unchanged, and none changes bit 2; bits 0-2
   change only in a force_write(0xFF41, _) step, or by bits 0-1 being cleared
   in a write that reaches 0xFF40 and stores a byte with bit 7 clear there. *)
C10_StatLowBitsForcedOrReset ==
    [][/\ (CpuFacing(last') /\ ~ReachedLcdControl(last')) => STAT' % 8 = STAT % 8
       /\ CpuFacing(last') => get_bit(STAT', 2) = get_bit(STAT, 2)
       /\ STAT' % 8 # STAT % 8 =>
            \/ last'.op = "force_write" /\ last'.addr = LCD_STATUS_ADDRESS
            \/ ReachedLcdControl(last') /\ ~get_bit(LCDC', 7) /\ STAT' % 4 = 0]_vars

C10_Witness ==
    /\ last = [op |-> "write", addr |-> LCD_STATUS_ADDRESS, data |-> \h00]
    /\ STAT = \h07

(* The registers with a rule of their own in Bus::read or Bus::write, and
   the ranges forwarded to the cartridge. *)
SpecialRegisters ==
    { JOYPAD_ADDRESS, TIMER_DIVIDER_REGISTER_ADDRESS, INTERRUPT_FLAG_ADDRESS,
      LCD_CONTROL_ADDRESS, LCD_STATUS_ADDRESS, LCD_Y_ADDRESS, DMA_ADDRESS,
      INTERRUPT_ENABLE_ADDRESS }

InCartridge(a) ==
    contains(BANK_ZERO, a) \/ contains(BANK_SWITCHABLE, a) \/ contains(EXTERNAL_RAM, a)

Ordinary(a) == a \notin SpecialRegisters /\ ~InCartridge(a)

(* C11, as claimed: write_16bit(addr, v) then read_16bit(addr) returns v for
   every addr that is no special register and in no cartridge range, whatever
   addr+1 is. *)
C11_RoundTrip16 ==
    (last.op = "write_16bit" /\ Ordinary(last.addr))
        => read_16bit(St, last.addr) = last.data

(* C11, amended: write_16bit(addr, v) then read_16bit(addr) returns v when
   neither addr nor addr+1 is a special register or in a cartridge range. *)
C11_RoundTrip16BothOrdinary ==
    (last.op = "write_16bit" /\ Ordinary(last.addr) /\ Ordinary((last.addr + 1) % 65536))
        => read_16bit(St, last.addr) = last.data

C11_Witness ==
    /\ last = [op |-> "write_16bit", addr |-> \hDDFF, data |-> \hFF04]
    /\ read_16bit(St, \hDDFF) = \hFF04
    /\ Get(data, \hFDFF) = \h04
    /\ Get(data, \hDE00) = \hFF

(* C12: write(0xFF00, d) stores the high nibble of d over the low nibble of
   the byte stored before, whatever the low nibble of d; read(0xFF00) is
   Joypad::read of the stored byte. *)
C12_JoypadPartialWrite ==
    [][(last'.op = "write" /\ last'.addr = JOYPAD_ADDRESS)
        => /\ Get(data', JOYPAD_ADDRESS) =
                  (last'.data - (last'.data % 16)) + (Get(data, JOYPAD_ADDRESS) % 16)
           /\ read(St', JOYPAD_ADDRESS) = joypad_read(St', Get(data', JOYPAD_ADDRESS))
           /\ joypad' = joypad]_vars

C12_Witness ==
    /\ last = [op |-> "write", addr |-> JOYPAD_ADDRESS, data |-> \h04]
    /\ Get(data, JOYPAD_ADDRESS) = \h0F
    /\ read(St, JOYPAD_ADDRESS) = \hC6

(* C13: write(0xFF04, x) calls Timer::reset once and stores nothing; the
   read(0xFF04) that follows returns the timer's divider, 0 after the reset,
   whatever x and the byte at 0xFF04 of the bus array. *)
C13_TimerDividerWrite ==
    [][(last'.op = "write" /\ last'.addr = TIMER_DIVIDER_REGISTER_ADDRESS)
        => /\ calls' = <<Call("timer_reset", 0, 0)>>
           /\ data' = data
           /\ read(St', TIMER_DIVIDER_REGISTER_ADDRESS) = divider'
           /\ divider' = 0]_vars

C13_Witness ==
    /\ last = [op |-> "write", addr |-> TIMER_DIVIDER_REGISTER_ADDRESS, data |-> \hFF]
    /\ Get(data, TIMER_DIVIDER_REGISTER_ADDRESS) = \h18
    /\ read(St, TIMER_DIVIDER_REGISTER_ADDRESS) = 0
    /\ Len(calls) = 1

(* C14: after set_interrupt_flag(k, val), bit k of read(0xFF0F) is val, the
   other bits among 0-4 are as before, bits 5-7 read 1 and the byte at 0xFFFF
   is unchanged. *)
C14_SetInterruptFlag ==
    [][last'.op = "set_interrupt_flag"
        => LET k == last'.addr
               before == read(St, INTERRUPT_FLAG_ADDRESS)
               after == read(St', INTERRUPT_FLAG_ADDRESS)
           IN  /\ get_bit(after, k) = (last'.data = 1)
               /\ \A j \in (0 .. 4) \ {k} : get_bit(after, j) = get_bit(before, j)
               /\ after \div 32 = 7
               /\ Get(data', INTERRUPT_ENABLE_ADDRESS) = Get(data, INTERRUPT_ENABLE_ADDRESS)]_vars

C14_Witness ==
    /\ last = [op |-> "set_interrupt_flag", addr |-> 2, data |-> 1]
    /\ read(St, INTERRUPT_FLAG_ADDRESS) = \hE4
    /\ Get(data, INTERRUPT_FLAG_ADDRESS) = \hE4
    /\ Get(data, INTERRUPT_ENABLE_ADDRESS) = \h00

(* Every value is a u16: nothing went below 0 or past 0xFFFF. *)
FitsU16(values) == \A v \in values : 0 <= v /\ v <= \hFFFF

(* C15: no call overflows or indexes outside the 65536-byte array: every u16
   value and index computed by read, read_16bit, write, write_16bit and
   force_write at an address lies in 0 .. 0xFFFF, the echo targets, the DMA
   source and destination indices and address+1 at 0xFFFF included. *)
C15_NoTrap ==
    last.op = "write_16bit" =>
        /\ FitsU16(write_16bit_values(last.addr, last.data))
        /\ FitsU16(read_16bit_values(last.addr))
        /\ \A b \in {\h00, \hFF} : FitsU16(write_values(last.addr, b))
        /\ last.addr = DMA_ADDRESS =>
               FitsU16({ DmaSource(last.data) + 159,
                         RangeMin(SPRITE_ATTRIBUTE_TABLE) + 159 })
        /\ DOMAIN data \subseteq 0 .. \hFFFF

C15_Witness ==
    /\ last = [op |-> "write_16bit", addr |-> \hFFFF, data |-> 0]
    /\ read_16bit_values(\hFFFF) = {0, \hFFFF}
    /\ calls = <<Call("rom_write", 0, 0)>>

Regions ==
    << BANK_ZERO, BANK_SWITCHABLE, VIDEO_RAM, EXTERNAL_RAM, WORK_RAM_1, WORK_RAM_2,
       ECHO_RAM, SPRITE_ATTRIBUTE_TABLE, NOT_USABLE, IO_REGISTERS, HIGH_RAM,
       INTERRUPT_ENABLE_REGISTER >>

(* C16: every 16-bit address lies in exactly one of the twelve regions, whose
   bounds are those of the address map. *)
C16_OneRegion ==
    /\ last.op = "write_16bit" =>
           Cardinality({ i \in 1 .. 12 : contains(Regions[i], last.addr) }) = 1
    /\ Regions =
           << <<0, 16383>>, <<16384, 32767>>, <<32768, 40959>>, <<40960, 49151>>,
              <<49152, 53247>>, <<53248, 57343>>, <<57344, 65023>>, <<65024, 65183>>,
              <<65184, 65279>>, <<65280, 65407>>, <<65408, 65534>>, <<65535, 65535>> >>

C16_Witness ==
    /\ last.op = "write_16bit"
    /\ last.addr = \hFFFF
    /\ { i \in 1 .. 12 : contains(Regions[i], last.addr) } = {12}

(* C17: immediately after construction the store holds the seeded register
   values, 0x00 at every other address, and the echo mirror holds. *)
C17_InitialState ==
    last.op = "new" =>
        /\ Get(data, \hFF00) = \hCF /\ Get(data, \hFF02) = \h7E
        /\ Get(data, \hFF04) = \h18 /\ Get(data, \hFF07) = \hF8
        /\ Get(data, \hFF0F) = \hE1 /\ Get(data, \hFF40) = \h91
        /\ Get(data, \hFF41) = \h81 /\ Get(data, \hFF44) = \h91
        /\ Get(data, \hFF46) = \hFF /\ Get(data, \hFF47) = \hFC
        /\ \A x \in { \hFF01, \hFF05, \hFF06, \hFF42, \hFF43, \hFF45,
                      \hFF4A, \hFF4B, \hFFFF } : Get(data, x) = \h00
        /\ \A x \in DOMAIN data :
               \/ x \in { \hFF00, \hFF02, \hFF04, \hFF07, \hFF0F,
                          \hFF40, \hFF41, \hFF44, \hFF46, \hFF47 }
               \/ data[x] = \h00
        /\ EchoMirror(data)

C17_Witness ==
    /\ last.op = "new"
    /\ ops = 0
    /\ calls = <<>>
    /\ Cardinality(DOMAIN data) = 10
    /\ divider = \hAB

(* C18: write_16bit(addr, v) is write(addr, v mod 256) followed by
   write((addr+1) mod 65536, v div 256), each with its own side effect, low
   byte first; at 0xFF40 the low byte goes through the LCD control rule and
   then the high byte through the STAT rule.  read_16bit(addr) is
   read(addr) + 256 * read((addr+1) mod 65536), the high byte at 0xFFFF coming
   from address 0x0000. *)
C18_LowThenHigh ==
    [][last'.op = "write_16bit" =>
          LET a  == last'.addr
              lo == last'.data % 256
              hi == last'.data \div 256
          IN  /\ [St' EXCEPT !.calls = calls'] =
                     write(write(St, a, lo), (a + 1) % 65536, hi)
              /\ a = LCD_CONTROL_ADDRESS =>
                     /\ Get(data', LCD_CONTROL_ADDRESS) = lo
                     /\ Get(data', LCD_STATUS_ADDRESS) =
                            And8(hi, \hF8) +
                            ((IF get_bit(lo, 7) THEN STAT ELSE And8(STAT, \hFC)) % 8)
              /\ read_16bit(St', a) = read(St', a) + 256 * read(St', (a + 1) % 65536)
              /\ a = \hFFFF => read_16bit(St', a) \div 256 = rom_read(St', \h0000)
    ]_vars

C18_Witness ==
    /\ last = [op |-> "write_16bit", addr |-> LCD_CONTROL_ADDRESS, data |-> \hFF04]
    /\ ops = 1
    /\ LCDC = \h04
    /\ LY = \h00
    /\ STAT = \hF8
    /\ read_16bit(St, LCD_CONTROL_ADDRESS) = \hF804

Delegated(a) ==
    \/ contains(BANK_ZERO, a) \/ contains(BANK_SWITCHABLE, a) \/ contains(EXTERNAL_RAM, a)
    \/ contains(VIDEO_RAM, a) \/ contains(SPRITE_ATTRIBUTE_TABLE, a)

(* The one call a write at a delegated address forwards. *)
Forwarded(a, d) ==
    IF contains(VIDEO_RAM, a) THEN Call("write_vram", a, d)
    ELSE IF contains(SPRITE_ATTRIBUTE_TABLE, a) THEN Call("write_oam", a, d)
    ELSE Call("rom_write", a, d)

(* What the adapter owning a delegated address returns for it. *)
Served(s, a) ==
    IF contains(VIDEO_RAM, a) THEN read_vram(s, a)
    ELSE IF contains(SPRITE_ATTRIBUTE_TABLE, a) THEN read_oam(s, a)
    ELSE rom_read(s, a)

(* C19: at a delegated address (cartridge 0x0000-0x7FFF and 0xA000-0xBFFF,
   video 0x8000-0x9FFF and 0xFE00-0xFE9F) write forwards exactly one call to
   the owning adapter and leaves the bus store unchanged; read returns what
   the adapter returns, whatever the bus store holds. *)
C19_Delegated ==
    [][/\ (last'.op = "write" /\ Delegated(last'.addr)) =>
              /\ calls' = <<Forwarded(last'.addr, last'.data)>>
              /\ data' = data
       /\ (last'.op = "write_16bit" /\ Delegated(last'.addr)
               /\ Delegated((last'.addr + 1) % 65536)) =>
              /\ calls' = << Forwarded(last'.addr, last'.data % 256),
                             Forwarded((last'.addr + 1) % 65536, last'.data \div 256) >>
              /\ data' = data
       /\ (last'.op \in {"write", "write_16bit", "force_write"} /\ Delegated(last'.addr)) =>
              LET a == last'.addr
              IN  /\ read(St', a) = Served(St', a)
                  /\ \A m \in { Zeroed, [x \in {a} |-> \h5A] } :
                         read([St' EXCEPT !.data = m], a) = read(St', a)
    ]_vars

C19_Witness ==
    /\ last = [op |-> "write", addr |-> \hA000, data |-> \h04]
    /\ calls = <<Call("rom_write", \hA000, \h04)>>
    /\ Get(data, \h0400) = \hFF
    /\ read(St, \h0400) = \h3E
    /\ read(St, \hA000) = \h04
    /\ Get(data, \hA000) = \h00

(* C20: force_write(a, d) stores exactly d at a, leaves every other byte of
   the bus store unchanged and makes no call to the cartridge, video, timer
   or input adapter. *)
C20_ForceWriteRaw ==
    [][last'.op = "force_write" =>
          /\ Get(data', last'.addr) = last'.data
          /\ \A x \in (DOMAIN data \cup DOMAIN data') \ {last'.addr} :
                 Get(data', x) = Get(data, x)
          /\ calls' = <<>>
          /\ rom' = rom /\ vram' = vram /\ oam' = oam
          /\ divider' = divider /\ joypad' = joypad
    ]_vars

C20_Witness ==
    /\ last = [op |-> "force_write", addr |-> LCD_STATUS_ADDRESS, data |-> \hFF]
    /\ STAT = \hFF
    /\ LY = \h04
    /\ LCDC = \h91
    /\ calls = <<>>

====
